---- MODULE Spec2Model ----
(***************************************************************************)
(* A model of src/agents/agent4.py: the Agent that encodes a short text    *)
(* message as an ordering of a 52 card deck and decodes it again.          *)
(*                                                                         *)
(* Python's int is unbounded and math.floor(num / sub_list_size) divides   *)
(* in IEEE-754 double precision, so the model carries its own unbounded    *)
(* naturals (sequences of 15 bit limbs, least significant first) and       *)
(* rounds the quotient the way a double does.                              *)
(***************************************************************************)
EXTENDS Integers, Sequences, FiniteSets, TLC

(***************************************************************************)
(* Unbounded integers (Python int).  A natural is a sequence of limbs in   *)
(* base 2^15, least significant first, without leading zero limbs; zero is *)
(* the empty sequence.  A signed integer is [neg, mag].                    *)
(***************************************************************************)
LimbBits == 15

Base == 2^LimbBits

SetMax(S) == CHOOSE x \in S : \A y \in S : y <= x

BigZero == << >>

RECURSIVE BigNorm(_)
BigNorm(a) ==
    IF Len(a) > 0 /\ a[Len(a)] = 0 THEN BigNorm(SubSeq(a, 1, Len(a) - 1)) ELSE a

RECURSIVE BigOfNat(_)
BigOfNat(k) == IF k = 0 THEN << >> ELSE <<k % Base>> \o BigOfNat(k \div Base)

RECURSIVE BigToNat(_)
BigToNat(a) == IF Len(a) = 0 THEN 0 ELSE a[1] + Base * BigToNat(Tail(a))

Limb(a, i) == IF i <= Len(a) THEN a[i] ELSE 0

BigCmp(a, b) ==
    IF Len(a) # Len(b) THEN (IF Len(a) < Len(b) THEN -1 ELSE 1)
    ELSE LET diff == {i \in 1..Len(a) : a[i] # b[i]}
         IN  IF diff = {} THEN 0
             ELSE IF a[SetMax(diff)] < b[SetMax(diff)] THEN -1 ELSE 1

BigLe(a, b) == BigCmp(a, b) <= 0

BigLt(a, b) == BigCmp(a, b) < 0

RECURSIVE BigAddFrom(_, _, _, _)
BigAddFrom(a, b, i, c) ==
    IF i > Len(a) /\ i > Len(b) THEN (IF c = 0 THEN << >> ELSE <<c>>)
    ELSE LET s == Limb(a, i) + Limb(b, i) + c
         IN  <<s % Base>> \o BigAddFrom(a, b, i + 1, s \div Base)

BigAdd(a, b) == BigAddFrom(a, b, 1, 0)

RECURSIVE BigSubFrom(_, _, _, _)
BigSubFrom(a, b, i, c) ==
    IF i > Len(a) THEN << >>
    ELSE LET s == a[i] - Limb(b, i) - c
         IN  IF s < 0 THEN <<s + Base>> \o BigSubFrom(a, b, i + 1, 1)
             ELSE <<s>> \o BigSubFrom(a, b, i + 1, 0)

\* a - b for a >= b
BigSub(a, b) == BigNorm(BigSubFrom(a, b, 1, 0))

RECURSIVE BigMulSmallFrom(_, _, _, _)
BigMulSmallFrom(a, k, i, c) ==
    IF i > Len(a) THEN (IF c = 0 THEN << >> ELSE <<c>>)
    ELSE LET s == a[i] * k + c
         IN  <<s % Base>> \o BigMulSmallFrom(a, k, i + 1, s \div Base)

\* a * k for 0 <= k < Base
BigMulSmall(a, k) == IF k = 0 THEN << >> ELSE BigMulSmallFrom(a, k, 1, 0)

RECURSIVE BigMulFrom(_, _, _)
BigMulFrom(a, b, i) ==
    IF i > Len(b) THEN << >>
    ELSE BigAdd(BigMulSmall(a, b[i]),
                LET rest == BigMulFrom(a, b, i + 1)
                IN  IF rest = << >> THEN << >> ELSE <<0>> \o rest)

BigMul(a, b) == BigMulFrom(a, b, 1)

\* the bits of one limb, most significant first, in exactly w digits
RECURSIVE LimbToBits(_, _)
LimbToBits(x, w) == IF w = 0 THEN << >> ELSE LimbToBits(x \div 2, w - 1) \o <<x % 2>>

RECURSIVE StripZeros(_)
StripZeros(bits) ==
    IF Len(bits) > 1 /\ bits[1] = 0 THEN StripZeros(Tail(bits)) ELSE bits

RECURSIVE BigBitsFrom(_, _)
BigBitsFrom(a, i) ==
    IF i = 0 THEN << >> ELSE LimbToBits(a[i], LimbBits) \o BigBitsFrom(a, i - 1)

\* bin(a)[2:]
BigToBits(a) == IF Len(a) = 0 THEN <<0>> ELSE StripZeros(BigBitsFrom(a, Len(a)))

RECURSIVE BitsToNat(_, _, _)
BitsToNat(bits, lo, hi) ==
    IF hi < lo THEN 0 ELSE 2 * BitsToNat(bits, lo, hi - 1) + bits[hi]

RECURSIVE BigFromBitsUpTo(_, _)
BigFromBitsUpTo(bits, hi) ==
    IF hi <= 0 THEN << >>
    ELSE <<BitsToNat(bits, IF hi - LimbBits + 1 < 1 THEN 1 ELSE hi - LimbBits + 1, hi)>>
         \o BigFromBitsUpTo(bits, hi - LimbBits)

\* int(bits, 2) for a non-empty digit string
BigFromBits(bits) == BigNorm(BigFromBitsUpTo(bits, Len(bits)))

\* int.bit_length()
BigBitLen(a) == IF Len(a) = 0 THEN 0 ELSE Len(BigToBits(a))

\* a * 2^k
RECURSIVE Zeros(_)
Zeros(k) == IF k = 0 THEN << >> ELSE <<0>> \o Zeros(k - 1)

BigShl(a, k) ==
    IF Len(a) = 0 THEN << >>
    ELSE Zeros(k \div LimbBits) \o BigMulSmall(a, 2^(k % LimbBits))

\* one step of the long division by d: r2 is the running remainder with the
\* next bit of the dividend shifted in
BigDivModStep(d, st, r2) ==
    IF BigLe(d, r2)
    THEN [i |-> st.i + 1, q |-> BigAdd(BigMulSmall(st.q, 2), <<1>>), r |-> BigSub(r2, d)]
    ELSE [i |-> st.i + 1, q |-> BigMulSmall(st.q, 2), r |-> r2]

\* long division of naturals, one quotient bit per step: st.r is the running
\* remainder, st.q the quotient so far, st.i the next bit of a (from the top)
RECURSIVE BigDivModFrom(_, _, _)
BigDivModFrom(abits, d, st) ==
    IF st.i > Len(abits) THEN st
    ELSE BigDivModFrom(abits, d,
             BigDivModStep(d, st, BigAdd(BigMulSmall(st.r, 2), BigOfNat(abits[st.i]))))

\* the division of the number with the bits abits, whose first skip bits
\* are below d
BigDivModBits(abits, d, skip) ==
    BigDivModFrom(abits, d,
        [i |-> skip + 1, q |-> << >>, r |-> BigFromBits(<<0>> \o SubSeq(abits, 1, skip))])

\* q and r with a = q*d + r, 0 <= r < d, for d > 0 (and a quotient that a
\* double holds)
BigDivMod(a, d) ==
    IF BigLt(a, d) THEN [i |-> 0, q |-> << >>, r |-> a]
    ELSE BigDivModBits(BigToBits(a), d, BigBitLen(d) - 1)

\* the same for a divisor 0 < k < Base, one quotient limb per step from the top
RECURSIVE BigDivModSmallFrom(_, _, _, _)
BigDivModSmallFrom(a, k, i, rem) ==
    IF i = 0 THEN [q |-> << >>, r |-> rem]
    ELSE LET cur == rem * Base + a[i]
             low == BigDivModSmallFrom(a, k, i - 1, cur % k)
         IN  [q |-> Append(low.q, cur \div k), r |-> low.r]

BigDivModSmall(a, k) ==
    LET qr == BigDivModSmallFrom(a, k, Len(a), 0)
    IN  [q |-> BigNorm(qr.q), r |-> qr.r]

MkInt(neg, mag) == [neg |-> neg /\ mag # << >>, mag |-> mag]

IntOfNat(k) == MkInt(FALSE, BigOfNat(k))

IntOfBig(a) == MkInt(FALSE, a)

IntNeg(x) == MkInt(~x.neg, x.mag)

IntAdd(x, y) ==
    IF x.neg = y.neg THEN MkInt(x.neg, BigAdd(x.mag, y.mag))
    ELSE IF BigLe(y.mag, x.mag) THEN MkInt(x.neg, BigSub(x.mag, y.mag))
    ELSE MkInt(y.neg, BigSub(y.mag, x.mag))

IntSub(x, y) == IntAdd(x, IntNeg(y))

IntMul(x, y) == MkInt(x.neg # y.neg, BigMul(x.mag, y.mag))

\* x >= y
IntGe(x, y) ==
    IF x.neg # y.neg THEN y.neg
    ELSE IF x.neg THEN BigLe(x.mag, y.mag) ELSE BigLe(y.mag, x.mag)

\* the value as a TLC integer (small values only)
IntToSmall(x) == IF x.neg THEN 0 - BigToNat(x.mag) ELSE BigToNat(x.mag)

(***************************************************************************)
(* math.floor(num / d): Python's true division of two ints gives the       *)
(* double nearest to the quotient (ties to even), and floor is taken of    *)
(* that double.  With Q = floor(|num| / d) and e = floor(log2 Q) the       *)
(* doubles next to Q (and below Q + 1) are 2^(e-52) apart, so the double   *)
(* is the neighbouring integer as soon as the quotient is within           *)
(* 2^(e-53) of it.  Quotients of 2^52 and more are left exact: the         *)
(* callers divide a number by the factorial one below its range.           *)
(***************************************************************************)
\* dist / d <= 2^(e-53)
Near(e, d, dist) == e < 52 /\ BigLe(BigShl(dist, 53 - e), d)

\* the floor of the double nearest to (Q + r/d), negated if neg, for Q of
\* e + 1 bits
FloorOfDouble(neg, d, Q, r, e) ==
    IF r = << >> THEN MkInt(neg, Q)
    ELSE IF (IF neg THEN ~(Q # << >> /\ Near(e, d, r)) ELSE Near(e, d, BigSub(d, r)))
    THEN MkInt(neg, BigAdd(Q, <<1>>))
    ELSE MkInt(neg, Q)

FloorOfQuotient(neg, d, qr) == FloorOfDouble(neg, d, qr.q, qr.r, BigBitLen(qr.q) - 1)

FloorTrueDiv(num, d) == FloorOfQuotient(num.neg, d, BigDivMod(num.mag, d))

(***************************************************************************)
(* The permutation ranking engine: cards_to_num and num_to_cards.          *)
(*                                                                         *)
(* TLC evaluates on a small stack, so the two recursions over the list of  *)
(* cards are written as the call made at each depth (the recursion has one *)
(* call per card), chained one after the other.                            *)
(***************************************************************************)
RECURSIVE FactorialsUpTo(_)
FactorialsUpTo(n) ==
    IF n = 0 THEN << <<1>> >>
    ELSE LET below == FactorialsUpTo(n - 1)
         IN  Append(below, BigMulSmall(below[n], n))

FactorialTable == FactorialsUpTo(60)

\* math.factorial(n), 0 <= n <= 60
Factorial(n) == FactorialTable[n + 1]

Range(s) == {s[i] : i \in 1..Len(s)}

SetMin(S) == CHOOSE x \in S : \A y \in S : x <= y

\* sorted(cards): position of each element among the others, equal elements
\* in their order of appearance
Sorted(cards) ==
    IF \A i \in 1..(Len(cards) - 1) : cards[i] <= cards[i + 1] THEN cards
    ELSE LET place == [j \in 1..Len(cards) |->
                         Cardinality({k \in 1..Len(cards) :
                             \/ cards[k] < cards[j]
                             \/ cards[k] = cards[j] /\ k < j}) + 1]
         IN  [i \in 1..Len(cards) |->
                 cards[CHOOSE j \in 1..Len(cards) : place[j] = i]]

\* list.index(x), counted from 0
IndexOf(list, x) == SetMin({i \in 1..Len(list) : list[i] = x}) - 1

\* list.remove(x): the list without the first x
Remove(list, x) ==
    LET i == IndexOf(list, x) + 1
    IN  SubSeq(list, 1, i - 1) \o SubSeq(list, i + 1, Len(list))

\* list.reverse()
Reverse(list) == [i \in 1..Len(list) |-> list[Len(list) + 1 - i]]

\* cards[k:] (k counted from 0)
From(cards, k) == SubSeq(cards, k + 1, Len(cards))

\* sub_list_indx of the call cards_to_num(cards), for len(cards) > 1
CardsToNumTerm(cards) ==
    LET num_cards == Len(cards)
        ordered_cards == Sorted(cards)
        sub_list_size == Factorial(num_cards - 1)
    IN  BigMulSmall(sub_list_size, IndexOf(ordered_cards, cards[1]))

\* the sum of sub_list_indx over the calls on cards[lo:], ..., cards[hi:]
RECURSIVE CardsToNumSum(_, _, _)
CardsToNumSum(cards, lo, hi) ==
    IF hi < lo THEN BigZero
    ELSE IF lo = hi THEN CardsToNumTerm(From(cards, lo))
    ELSE BigAdd(CardsToNumSum(cards, lo, (lo + hi) \div 2),
                CardsToNumSum(cards, (lo + hi) \div 2 + 1, hi))

\* cards_to_num(cards): the calls on cards[0:], cards[1:], ... down to the
\* one card that returns 0
cards_to_num(cards) == CardsToNumSum(cards, 0, Len(cards) - 2)

\* what a call gives: the list it returns, or the exception it raises
Returned(cards) == [raised |-> "", cards |-> cards]

Raised(exception) == [raised |-> exception, cards |-> << >>]

\* lines 92-95 of a call: the card picked and the arguments of the next call
NumToCardsPick(st, ordered_cards, sub_list_start, i) ==
    [num |-> IntSub(st.num, sub_list_start),
     cards |-> SubSeq(ordered_cards, 1, i - 1)
               \o SubSeq(ordered_cards, i + 1, Len(ordered_cards)),
     out |-> Append(st.out, ordered_cards[i]),
     raised |-> "",
     done |-> FALSE]

\* lines 89-92 of a call: a negative index counts from the end of the list
NumToCardsCheck(st, ordered_cards, permutations, sub_list_start, i) ==
    IF IntGe(sub_list_start, permutations)
    THEN [st EXCEPT !.raised = "Exception: Number too large to encode in cards."]
    ELSE IF i < 0 - Len(ordered_cards)
    THEN [st EXCEPT !.raised = "IndexError"]
    ELSE NumToCardsPick(st, ordered_cards, sub_list_start,
                        IF i < 0 THEN Len(ordered_cards) + i + 1 ELSE i + 1)

\* lines 87-95 of a call
NumToCardsIndexed(st, ordered_cards, permutations, sub_list_size, sub_list_indx) ==
    NumToCardsCheck(st, ordered_cards, permutations,
                    IntMul(sub_list_indx, sub_list_size), IntToSmall(sub_list_indx))

\* lines 86-95 of a call
NumToCardsDivide(st, ordered_cards, permutations, sub_list_size) ==
    NumToCardsIndexed(st, ordered_cards, permutations, IntOfBig(sub_list_size),
                      FloorTrueDiv(st.num, sub_list_size))

\* One call of num_to_cards.  st.num and st.cards are its arguments, st.out
\* the first cards chosen by the calls above it, st.raised what was raised.
NumToCardsCall(st) ==
    IF st.raised # "" \/ st.done THEN st
    ELSE IF Len(st.cards) = 1
    THEN [st EXCEPT !.out = st.out \o st.cards, !.done = TRUE]
    ELSE IF Len(st.cards) = 0 THEN [st EXCEPT !.raised = "ValueError"]
    ELSE NumToCardsDivide(st, Sorted(st.cards), IntOfBig(Factorial(Len(st.cards))),
                          Factorial(Len(st.cards) - 1))

\* the calls nested below the one that starts in st, down to the last
RECURSIVE NumToCardsCalls(_)
NumToCardsCalls(st) ==
    IF st.raised # "" \/ st.done THEN st
    ELSE NumToCardsCalls(NumToCardsCall(st))

NumToCardsResult(end) ==
    IF end.raised # "" THEN Raised(end.raised) ELSE Returned(end.out)

\* num_to_cards(num, cards), num a signed integer
num_to_cards(num, cards) ==
    NumToCardsResult(NumToCardsCalls([num |-> num, cards |-> cards, out |-> << >>,
                                      raised |-> "", done |-> FALSE]))

(***************************************************************************)
(* Text.  A message is a sequence of characters, each a one character      *)
(* string; Ord is the character's code point.                              *)
(***************************************************************************)
DigitChars == << "0", "1", "2", "3", "4", "5", "6", "7", "8", "9" >>

UpperChars ==
    << "A", "B", "C", "D", "E", "F", "G", "H", "I", "J", "K", "L", "M", "N",
       "O", "P", "Q", "R", "S", "T", "U", "V", "W", "X", "Y", "Z" >>

LowerChars ==
    << "a", "b", "c", "d", "e", "f", "g", "h", "i", "j", "k", "l", "m", "n",
       "o", "p", "q", "r", "s", "t", "u", "v", "w", "x", "y", "z" >>

\* the other characters of the model, each with its code point
OtherChars ==
    << <<"\t", 9>>, <<"\n", 10>>, <<" ", 32>>, <<"!", 33>>, <<"\"", 34>>,
       <<"#", 35>>, <<"'", 39>>, <<",", 44>>, <<"-", 45>>, <<".", 46>>,
       <<":", 58>>, <<";", 59>>, <<"?", 63>>, <<"~", 126>> >>

PositionIn(list, c) == CHOOSE i \in 1..Len(list) : list[i] = c

\* ord(c)
Ord(c) ==
    IF c \in Range(DigitChars) THEN 47 + PositionIn(DigitChars, c)
    ELSE IF c \in Range(UpperChars) THEN 64 + PositionIn(UpperChars, c)
    ELSE IF c \in Range(LowerChars) THEN 96 + PositionIn(LowerChars, c)
    ELSE (CHOOSE p \in Range(OtherChars) : p[1] = c)[2]

\* the characters str.split() splits at
IsSpace(c) == c \in {" ", "\t", "\n"}

\* ch.isdigit(), and for these characters ch.isnumeric()
IsDigit(c) == Ord(c) >= 48 /\ Ord(c) <= 57

IsUpper(c) == Ord(c) >= 65 /\ Ord(c) <= 90

IsLower(c) == Ord(c) >= 97 /\ Ord(c) <= 122

\* str.isnumeric(): at least one character and all of them numeric
IsNumeric(str) == Len(str) > 0 /\ \A i \in 1..Len(str) : IsDigit(str[i])

\* str.isalpha()
IsAlpha(str) ==
    Len(str) > 0 /\ \A i \in 1..Len(str) : IsUpper(str[i]) \/ IsLower(str[i])

\* str.islower(): at least one cased character and no uppercase one
IsLowerStr(str) ==
    /\ \E i \in 1..Len(str) : IsLower(str[i])
    /\ \A i \in 1..Len(str) : ~IsUpper(str[i])

\* str.isalnum()
IsAlnum(str) ==
    /\ Len(str) > 0
    /\ \A i \in 1..Len(str) : IsUpper(str[i]) \/ IsLower(str[i]) \/ IsDigit(str[i])

\* "".join(message.split())
Clean(message) == SelectSeq(message, LAMBDA c : ~IsSpace(c))

(***************************************************************************)
(* class Domain and DomainFrequencies                                      *)
(***************************************************************************)
Domain ==
    [ALL |-> 0, NUM |-> 1, LOWER |-> 2, LOWER_AND_UPPER |-> 3,
     LETTERS_NUMBERS |-> 4, LAT_LONG |-> 5]

Domains == DOMAIN Domain

MAX_DOMAIN_VALUE == SetMax({Domain[d] : d \in Domains})

\* Domain(value)
DomainOf(value) == CHOOSE d \in Domains : Domain[d] = value

\* line 24, weights in thousandths
Frequencies_ALL ==
    << <<"a", 8120>>, <<"b", 1490>>, <<"c", 2710>>, <<"d", 4320>>,
      <<"e", 12020>>, <<"f", 2300>>, <<"g", 2030>>, <<"h", 5920>>,
      <<"i", 7310>>, <<"j", 100>>, <<"k", 690>>, <<"l", 3980>>,
      <<"m", 2610>>, <<"n", 6950>>, <<"o", 7680>>, <<"p", 1820>>,
      <<"q", 110>>, <<"r", 6020>>, <<"s", 6280>>, <<"t", 9100>>,
      <<"u", 2880>>, <<"v", 1110>>, <<"w", 2090>>, <<"x", 170>>,
      <<"y", 2110>>, <<"z", 70>>, <<" ", 110>>, <<"\t", 100>>,
      <<".", 6970>>, <<",", 5930>>, <<"'", 1530>>, <<"\"", 1330>>,
      <<":", 900>>, <<"-", 770>>, <<";", 740>>, <<"?", 430>>,
      <<"!", 390>>, <<"0", 90>>, <<"1", 80>>, <<"2", 70>>, <<"3", 60>>,
      <<"4", 50>>, <<"5", 40>>, <<"6", 30>>, <<"7", 20>>, <<"8", 10>>,
      <<"9", 5>> >>

\* line 25, weights in thousandths
Frequencies_LAT_LONG ==
    << <<"0", 186000>>, <<"1", 342000>>, <<"2", 223000>>, <<"3", 334000>>,
      <<"4", 208000>>, <<"5", 215000>>, <<"6", 233000>>, <<"7", 211000>>,
      <<"8", 173000>>, <<"9", 168000>>, <<"N", 169000>>, <<"E", 164000>>,
      <<"S", 31000>>, <<"W", 36000>>, <<",", 200000>>, <<".", 400000>>,
      <<" ", 600000>> >>

\* line 26, weights in thousandths
Frequencies_LOWER ==
    << <<"a", 8120>>, <<"b", 1490>>, <<"c", 2710>>, <<"d", 4320>>,
      <<"e", 12020>>, <<"f", 2300>>, <<"g", 2030>>, <<"h", 5920>>,
      <<"i", 7310>>, <<"j", 100>>, <<"k", 690>>, <<"l", 3980>>,
      <<"m", 2610>>, <<"n", 6950>>, <<"o", 7680>>, <<"p", 1820>>,
      <<"q", 110>>, <<"r", 6020>>, <<"s", 6280>>, <<"t", 9100>>,
      <<"u", 2880>>, <<"v", 1110>>, <<"w", 2090>>, <<"x", 170>>,
      <<"y", 2110>>, <<"z", 70>> >>

\* line 27, weights in thousandths
Frequencies_LOWER_AND_UPPER ==
    << <<"a", 8120>>, <<"b", 1490>>, <<"c", 2710>>, <<"d", 4320>>,
      <<"e", 12020>>, <<"f", 2300>>, <<"g", 2030>>, <<"h", 5920>>,
      <<"i", 7310>>, <<"j", 100>>, <<"k", 690>>, <<"l", 3980>>,
      <<"m", 2610>>, <<"n", 6950>>, <<"o", 7680>>, <<"p", 1820>>,
      <<"q", 110>>, <<"r", 6020>>, <<"s", 6280>>, <<"t", 9100>>,
      <<"u", 2880>>, <<"v", 1110>>, <<"w", 2090>>, <<"x", 170>>,
      <<"y", 2110>>, <<"z", 70>>, <<"A", 812>>, <<"B", 149>>,
      <<"C", 271>>, <<"D", 432>>, <<"E", 1202>>, <<"F", 230>>,
      <<"G", 203>>, <<"H", 592>>, <<"I", 731>>, <<"J", 10>>, <<"K", 69>>,
      <<"L", 398>>, <<"M", 261>>, <<"N", 695>>, <<"O", 768>>,
      <<"P", 182>>, <<"Q", 11>>, <<"R", 602>>, <<"S", 628>>,
      <<"T", 910>>, <<"U", 288>>, <<"V", 111>>, <<"W", 209>>,
      <<"X", 17>>, <<"Y", 211>>, <<"Z", 7>> >>

\* line 28, weights in thousandths
Frequencies_LETTERS_NUMBERS ==
    << <<"a", 8120>>, <<"b", 1490>>, <<"c", 2710>>, <<"d", 4320>>,
      <<"e", 12020>>, <<"f", 2300>>, <<"g", 2030>>, <<"h", 5920>>,
      <<"i", 7310>>, <<"j", 100>>, <<"k", 690>>, <<"l", 3980>>,
      <<"m", 2610>>, <<"n", 6950>>, <<"o", 7680>>, <<"p", 1820>>,
      <<"q", 110>>, <<"r", 6020>>, <<"s", 6280>>, <<"t", 9100>>,
      <<"u", 2880>>, <<"v", 1110>>, <<"w", 2090>>, <<"x", 170>>,
      <<"y", 2110>>, <<"z", 70>>, <<"A", 812>>, <<"B", 149>>,
      <<"C", 271>>, <<"D", 432>>, <<"E", 1202>>, <<"F", 230>>,
      <<"G", 203>>, <<"H", 592>>, <<"I", 731>>, <<"J", 10>>, <<"K", 69>>,
      <<"L", 398>>, <<"M", 261>>, <<"N", 695>>, <<"O", 768>>,
      <<"P", 182>>, <<"Q", 11>>, <<"R", 602>>, <<"S", 628>>,
      <<"T", 910>>, <<"U", 288>>, <<"V", 111>>, <<"W", 209>>,
      <<"X", 17>>, <<"Y", 211>>, <<"Z", 7>>, <<"0", 90>>, <<"1", 80>>,
      <<"2", 70>>, <<"3", 60>>, <<"4", 50>>, <<"5", 40>>, <<"6", 30>>,
      <<"7", 20>>, <<"8", 10>>, <<"9", 5>> >>

\* line 29, weights in thousandths
Frequencies_NUM ==
    << <<"0", 90>>, <<"1", 80>>, <<"2", 70>>, <<"3", 60>>, <<"4", 50>>,
      <<"5", 40>>, <<"6", 30>>, <<"7", 20>>, <<"8", 10>>, <<"9", 5>> >>

DomainFrequencies ==
    [ALL |-> Frequencies_ALL, LAT_LONG |-> Frequencies_LAT_LONG,
     LOWER |-> Frequencies_LOWER, LOWER_AND_UPPER |-> Frequencies_LOWER_AND_UPPER,
     LETTERS_NUMBERS |-> Frequencies_LETTERS_NUMBERS, NUM |-> Frequencies_NUM]

get_domain_frequencies(domain) ==
    IF domain \in DOMAIN DomainFrequencies THEN DomainFrequencies[domain]
    ELSE DomainFrequencies["ALL"]

\* the keys of a frequency table
Keys(frequencies) == {frequencies[i][1] : i \in 1..Len(frequencies)}

\* is_lat_long with any() in the place of all()
is_lat_long_any(message) ==
    \E i \in 1..Len(message) :
        IsDigit(message[i]) \/ message[i] \in {",", ".", "N", "E", "S", "W"}

is_lat_long(message) ==
    \A i \in 1..Len(message) :
        IsDigit(message[i]) \/ message[i] \in {",", ".", "N", "E", "S", "W"}

get_domain_type(message) ==
    LET clean_message == Clean(message)
    IN  IF IsNumeric(clean_message) THEN "NUM"
        ELSE IF IsAlpha(clean_message) /\ IsLowerStr(clean_message) THEN "LOWER"
        ELSE IF IsAlpha(clean_message) THEN "LOWER_AND_UPPER"
        ELSE IF IsAlnum(clean_message) THEN "LETTERS_NUMBERS"
        ELSE IF is_lat_long(clean_message) THEN "LAT_LONG"
        ELSE "ALL"

(***************************************************************************)
(* The weights are Python floats and HuffmanCodec.from_frequencies adds    *)
(* them, so which of two nodes is popped first can hang on the rounding of *)
(* a sum.  A double is held as the natural it is a multiple of 2^-60 of    *)
(* (the smallest weight, 0.005, has doubles 2^-60 apart around it).        *)
(***************************************************************************)
ScaleLimbs == 4

\* a natural rounded to 53 significant bits, ties to even; inexact says that
\* the value lies strictly above the natural
RoundTo53(a, inexact) ==
    LET bits == BigToBits(a)
        k == Len(bits) - 53
    IN  IF k <= 0 THEN a
        ELSE LET kept == BigFromBits(SubSeq(bits, 1, 53))
                 above_half ==
                     \/ inexact
                     \/ \E i \in 55..Len(bits) : bits[i] = 1
                     \/ bits[53] = 1
                 up == bits[54] = 1 /\ above_half
             IN  BigShl(IF up THEN BigAdd(kept, <<1>>) ELSE kept, k)

\* float("<thousandths>e-3"): the double nearest to the decimal literal
ToDouble(thousandths) ==
    LET qr == BigDivModSmall(Zeros(2 * ScaleLimbs) \o BigOfNat(thousandths), 1000)
        rounded == RoundTo53(qr.q, qr.r # 0)
    IN  SubSeq(rounded, ScaleLimbs + 1, Len(rounded))

\* the float sum of two doubles
DoubleAdd(x, y) == RoundTo53(BigAdd(x, y), FALSE)

(***************************************************************************)
(* dahuffman.HuffmanCodec, as string_to_binary and binary_to_string use    *)
(* it.  A heap entry is (frequency, [(symbol, code), ...]); the code is    *)
(* kept as its bits, first bit first.                                      *)
(***************************************************************************)
EOF == "_EOF"

\* symbols compare as Python compares them: _EOF below every string,
\* one character strings by code point
SymbolLess(s, t) ==
    IF s = EOF THEN t # EOF
    ELSE IF t = EOF THEN FALSE
    ELSE Ord(s) < Ord(t)

\* tuple comparison of two heap entries
EntryLess(a, b) ==
    \/ BigLt(a.f, b.f)
    \/ a.f = b.f /\ SymbolLess(a.list[1].s, b.list[1].s)

\* the heap is held as a list of its entries; heappop returns the least
HeapMin(heap) ==
    CHOOSE i \in 1..Len(heap) : \A j \in 1..Len(heap) : j = i \/ EntryLess(heap[i], heap[j])

Without(heap, i) == SubSeq(heap, 1, i - 1) \o SubSeq(heap, i + 1, Len(heap))

\* one round of the loop: pop a and b, push the merged entry
HuffmanMerge(heap) ==
    LET ia == HeapMin(heap)
        a == heap[ia]
        heap1 == Without(heap, ia)
        ib == HeapMin(heap1)
        b == heap1[ib]
        merged ==
            [f |-> DoubleAdd(a.f, b.f),
             list |-> [i \in 1..Len(a.list) |->
                          [s |-> a.list[i].s, code |-> <<0>> \o a.list[i].code]]
                      \o [i \in 1..Len(b.list) |->
                          [s |-> b.list[i].s, code |-> <<1>> \o b.list[i].code]]]
    IN  Append(Without(heap1, ib), merged)

RECURSIVE HuffmanLoop(_)
HuffmanLoop(heap) ==
    IF Len(heap) <= 1 THEN heap ELSE HuffmanLoop(HuffmanMerge(heap))

\* HuffmanCodec.from_frequencies(frequencies): the code table, as the list of
\* its (symbol, code) items
from_frequencies(frequencies) ==
    LET heap == [i \in 1..Len(frequencies) |->
                    [f |-> ToDouble(frequencies[i][2]),
                     list |-> <<[s |-> frequencies[i][1], code |-> << >>]>>]]
                \o <<[f |-> ToDouble(1000), list |-> <<[s |-> EOF, code |-> << >>]>>]>>
    IN  HuffmanLoop(heap)[1].list

\* the code table of each domain
CodeTable ==
    [ALL             |-> from_frequencies(get_domain_frequencies("ALL")),
     NUM             |-> from_frequencies(get_domain_frequencies("NUM")),
     LOWER           |-> from_frequencies(get_domain_frequencies("LOWER")),
     LOWER_AND_UPPER |-> from_frequencies(get_domain_frequencies("LOWER_AND_UPPER")),
     LETTERS_NUMBERS |-> from_frequencies(get_domain_frequencies("LETTERS_NUMBERS")),
     LAT_LONG        |-> from_frequencies(get_domain_frequencies("LAT_LONG"))]

Symbols(table) == {table[i].s : i \in 1..Len(table)}

\* table[symbol]
CodeOf(table, symbol) == table[CHOOSE i \in 1..Len(table) : table[i].s = symbol].code

\* the codes of message[st.i], message[st.i + 1], ... appended to st.bits
RECURSIVE CodesFrom(_, _, _)
CodesFrom(table, message, st) ==
    IF st.i > Len(message) THEN st
    ELSE CodesFrom(table, message,
                   [i |-> st.i + 1, bits |-> st.bits \o CodeOf(table, message[st.i])])

\* PrefixCodec.encode pads the last, partial byte with the code of _EOF, cut
\* or zero filled to eight bits
PadToByte(chunk) ==
    IF Len(chunk) >= 8 THEN SubSeq(chunk, 1, 8) ELSE chunk \o Zeros(8 - Len(chunk))

HuffmanPad(body, size, eof_code) ==
    IF size = 0 THEN body
    ELSE SubSeq(body, 1, Len(body) - size)
         \o PadToByte(SubSeq(body, Len(body) - size + 1, Len(body)) \o eof_code)

HuffmanEncodeBody(body, eof_code) ==
    [raised |-> "", bits |-> HuffmanPad(body, Len(body) % 8, eof_code)]

\* PrefixCodec.encode(message) with the given code table: the bytes as their
\* bits, or KeyError for a symbol that is not in the table
HuffmanEncode(table, message) ==
    IF \E i \in 1..Len(message) : message[i] \notin Symbols(table)
    THEN [raised |-> "KeyError", bits |-> << >>]
    ELSE HuffmanEncodeBody(CodesFrom(table, message, [i |-> 1, bits |-> << >>]).bits,
                           CodeOf(table, EOF))

\* the decoder yields the symbol of the item it found, and stops at _EOF
HuffmanDecodeItem(st, item) ==
    IF item.s = EOF THEN [st EXCEPT !.done = TRUE]
    ELSE [pos |-> st.pos + Len(item.code), out |-> Append(st.out, item.s), done |-> FALSE]

HuffmanDecodeFound(table, st, found) ==
    IF found = {} THEN [st EXCEPT !.done = TRUE]
    ELSE HuffmanDecodeItem(st, table[CHOOSE i \in found : TRUE])

\* one symbol of PrefixCodec.decode_streaming: bits are shifted into the
\* buffer until (size, buffer) is the code of a symbol, which at most one
\* item of a prefix code can be; _EOF or the end of the data stops
HuffmanDecodeSymbol(table, bits, st) ==
    HuffmanDecodeFound(table, st,
        {i \in 1..Len(table) :
            /\ st.pos + Len(table[i].code) - 1 <= Len(bits)
            /\ SubSeq(bits, st.pos, st.pos + Len(table[i].code) - 1) = table[i].code})

RECURSIVE HuffmanDecodeFrom(_, _, _)
HuffmanDecodeFrom(table, bits, st) ==
    IF st.done THEN st
    ELSE HuffmanDecodeFrom(table, bits, HuffmanDecodeSymbol(table, bits, st))

\* PrefixCodec.decode(bytes) with the given code table, joined to a string
HuffmanDecode(table, bits) ==
    HuffmanDecodeFrom(table, bits, [pos |-> 1, out |-> << >>, done |-> FALSE]).out

(***************************************************************************)
(* class Agent                                                             *)
(***************************************************************************)
\* bin(int(bytes_repr.hex(), 16))[2:]: int('', 16) raises for no bytes
BinaryOfBytes(bytes_repr) ==
    IF bytes_repr.raised # "" THEN bytes_repr
    ELSE IF bytes_repr.bits = << >> THEN [raised |-> "ValueError", bits |-> << >>]
    ELSE [raised |-> "", bits |-> StripZeros(bytes_repr.bits)]

string_to_binary(message, domain) ==
    BinaryOfBytes(HuffmanEncode(CodeTable[domain], message))

\* int(binary, 2).to_bytes((bit_length + 7) // 8, 'big')
BytesOfValue(value, bit_length) ==
    IF bit_length = 0 THEN << >>
    ELSE Zeros(8 * ((bit_length + 7) \div 8) - bit_length) \o value

BytesOfBinary(value) == BytesOfValue(value, IF value = <<0>> THEN 0 ELSE Len(value))

\* binary_to_string(binary, domain), binary a non-empty digit string
binary_to_string(binary, domain) ==
    HuffmanDecode(CodeTable[domain], BytesOfBinary(StripZeros(binary)))

\* get_hash(bit_string), given the one byte PearsonHasher(1) makes of the
\* decimal digits of the number: bin(int(hex_hash, 16))[2:].zfill(8)
get_hash(hash_byte) == LimbToBits(hash_byte, 8)

deck_encoded(message_cards) ==
    SelectSeq([i \in 1..52 |-> i - 1], LAMBDA i : i \notin Range(message_cards))
    \o message_cards

get_encoded_cards(deck, start_card_num, end_card_num) ==
    SelectSeq(Reverse(deck), LAMBDA c : c >= start_card_num /\ c <= end_card_num)

NULL == <<"N", "U", "L", "L">>

check_decoded_message(message, domain_type) ==
    LET clean_message == Clean(message)
    IN  IF message = << >> THEN NULL
        ELSE IF get_domain_type(clean_message) = "ALL"
                /\ ~\A i \in 1..Len(message) : Ord(message[i]) < 128 /\ Ord(message[i]) > 32
        THEN NULL
        ELSE message

\* (message_bits, checksum_bits) = (binary[:-8], binary[-8:])
get_binary_parts(binary) ==
    [message_bits |-> SubSeq(binary, 1, Len(binary) - 8),
     checksum_bits |-> SubSeq(binary, IF Len(binary) > 8 THEN Len(binary) - 7 ELSE 1,
                              Len(binary))]

\* lines 151-155: the first n of range(1, 52) with n! >= integer_repr, and 1
\* when the loop ends without finding one
FirstOr(found, otherwise) == IF found = {} THEN otherwise ELSE SetMin(found)

NumCardsToEncode(integer_repr) ==
    FirstOr({n \in 1..51 : BigLe(integer_repr, Factorial(n))}, 1)

\* lines 156-157 of encode
PayloadOf(integer_repr, deck, num_cards_to_encode) ==
    [num_cards_to_encode |-> num_cards_to_encode,
     start_idx |-> Len(deck) - num_cards_to_encode,
     message_cards |-> num_to_cards(IntOfBig(integer_repr),
                                    From(deck, Len(deck) - num_cards_to_encode))]

\* lines 151-157 of encode: the cards chosen for integer_repr and their
\* ordering, or what num_to_cards raises
EncodePayload(integer_repr, deck) ==
    PayloadOf(integer_repr, deck, NumCardsToEncode(integer_repr))

NoEncoding ==
    [raised |-> "", deck |-> << >>, domain_type |-> "", integer_repr |-> BigZero,
     num_cards_to_encode |-> 0, start_idx |-> 0, message_cards |-> << >>,
     hash |-> << >>]

\* line 164, reached when none of the three calls of num_to_cards raised
EncodeCards(locals, message_cards, start_idx_cards, domain_cards) ==
    IF message_cards.raised # "" THEN [locals EXCEPT !.raised = message_cards.raised]
    ELSE IF start_idx_cards.raised # ""
    THEN [locals EXCEPT !.raised = start_idx_cards.raised]
    ELSE IF domain_cards.raised # "" THEN [locals EXCEPT !.raised = domain_cards.raised]
    ELSE [locals EXCEPT
             !.message_cards = message_cards.cards,
             !.deck = deck_encoded(Reverse(message_cards.cards)
                                   \o Reverse(domain_cards.cards)
                                   \o Reverse(start_idx_cards.cards))]

\* lines 157-162
EncodeMetadata(locals, deck, domain_type, payload_of) ==
    EncodeCards([locals EXCEPT !.num_cards_to_encode = payload_of.num_cards_to_encode,
                               !.start_idx = payload_of.start_idx],
                payload_of.message_cards,
                num_to_cards(IntOfNat(payload_of.start_idx), SubSeq(deck, 1, 6)),
                num_to_cards(IntOfNat(Domain[domain_type]), SubSeq(deck, 7, 9)))

\* lines 149-156
EncodeNumber(locals, deck, domain_type, integer_repr) ==
    EncodeMetadata([locals EXCEPT !.integer_repr = integer_repr], deck, domain_type,
                   EncodePayload(integer_repr, deck))

\* lines 146-148, reached when string_to_binary did not raise
EncodeBinary(deck, hash, domain_type, binary) ==
    IF binary.raised # ""
    THEN [NoEncoding EXCEPT !.raised = binary.raised, !.domain_type = domain_type]
    ELSE EncodeNumber([NoEncoding EXCEPT !.domain_type = domain_type, !.hash = hash],
                      deck, domain_type, BigFromBits(binary.bits \o hash))

\* line 145
EncodeClassified(message, deck, hash, domain_type) ==
    EncodeBinary(deck, hash, domain_type, string_to_binary(message, domain_type))

\* encode(message), given the deck generate_deck returns and the byte the
\* hasher returns: what it raises or the deck it returns, with its locals
encode(message, deck, hash_byte) ==
    EncodeClassified(message, deck, get_hash(hash_byte), get_domain_type(message))

NoDecoding ==
    [raised |-> "", value |-> << >>, start_idx |-> BigZero, domain_int |-> BigZero,
     encoded_cards |-> << >>, validated |-> FALSE, message |-> << >>]

\* line 184, reached with domain_type assigned
DecodeChecked(locals, domain_type, decoded_message) ==
    [locals EXCEPT !.validated = TRUE,
                   !.message = decoded_message,
                   !.value = check_decoded_message(decoded_message, domain_type)]

\* lines 179-180
DecodeMessage(locals, domain_type, message_bits) ==
    DecodeChecked(locals, domain_type, binary_to_string(message_bits, domain_type))

\* lines 176-184.  When the test of line 178 fails, line 184 reads
\* domain_type, which was never assigned: UnboundLocalError.
DecodeParts(locals, domain_int, parts) ==
    IF /\ Len(parts.checksum_bits) = 8
       /\ BigLe(domain_int, BigOfNat(MAX_DOMAIN_VALUE))
       /\ parts.message_bits # << >>
    THEN DecodeMessage(locals, DomainOf(BigToNat(domain_int)), parts.message_bits)
    ELSE [locals EXCEPT !.raised = "UnboundLocalError"]

\* lines 173-175
DecodeCards(locals, domain_int, encoded_cards) ==
    DecodeParts([locals EXCEPT !.encoded_cards = encoded_cards], domain_int,
                get_binary_parts(BigToBits(cards_to_num(encoded_cards))))

\* lines 171-172 and 181-182
DecodeFields(deck, start_idx, domain_int) ==
    IF BigLe(start_idx, BigOfNat(51))
    THEN DecodeCards([NoDecoding EXCEPT !.start_idx = start_idx,
                                        !.domain_int = domain_int],
                     domain_int, get_encoded_cards(deck, BigToNat(start_idx), 51))
    ELSE [NoDecoding EXCEPT !.start_idx = start_idx, !.domain_int = domain_int,
                            !.value = NULL]

\* decode(deck) for a deck that holds every card: what it raises or the string
\* it returns, with its locals
decode(deck) ==
    DecodeFields(deck, cards_to_num(get_encoded_cards(deck, 0, 5)),
                 cards_to_num(get_encoded_cards(deck, 6, 8)))

(***************************************************************************)
(* The calls.  An Agent keeps self.rng and self.hash; encode writes        *)
(* self.hash and nothing reads it, so a call's outcome depends on its      *)
(* argument, the generated deck and the hasher's byte only, and every call *)
(* is made on a newly constructed Agent, as main does.                     *)
(***************************************************************************)
VARIABLES
    pc,          \* the calls made so far
    message,     \* the argument of encode
    deck,        \* the deck generate_deck returned, or the argument of decode
    encoded,     \* encode's outcome and locals
    decoded,     \* decode's outcome and locals
    self_hash,   \* self.hash, << >> for None
    num,         \* the integer given to num_to_cards
    cards,       \* the cards given to num_to_cards or cards_to_num
    ordering,    \* num_to_cards's outcome
    rank,        \* cards_to_num's result
    payload,     \* the outcome of lines 151-157 for an integer
    classified   \* get_domain_type's result

vars == <<pc, message, deck, encoded, decoded, self_hash, num, cards, ordering,
          rank, payload, classified>>

Identity == [i \in 1..52 |-> i - 1]

\* a message made of k times the character c
Repeat(c, k) == [i \in 1..k |-> c]

RECURSIVE StringsUpTo(_, _)
\* the strings of at most k characters of alphabet
StringsUpTo(alphabet, k) ==
    IF k = 0 THEN {<< >>}
    ELSE LET shorter == StringsUpTo(alphabet, k - 1)
         IN  shorter \cup {Append(m, c) : m \in shorter, c \in alphabet}

MaxLen == 2
MaxRepeat == 26
Alphabet == {"0", "1", "a", "z", "A", "N", ",", " ", "!"}
RepeatedChars == {"0", "z"}
RepeatLengths == {3, 8, 19, MaxRepeat}

\* the messages given to encode
Messages ==
    StringsUpTo(Alphabet, MaxLen)
    \cup {Repeat(c, k) : c \in RepeatedChars, k \in RepeatLengths}

\* cards.generate_deck(rng): some permutation of the 52 cards; the ordered
\* deck, the reversed deck and one other permutation stand for them
generate_deck ==
    {Identity, Reverse(Identity), [i \in 1..52 |-> (7 * i) % 52]}

\* PearsonHasher(1).hash(...): one byte, fixed by the digits hashed; the
\* table of the library decides which, so any of these may be it
HashBytes == {0, 131}

Init ==
    /\ pc = "init"
    /\ message = << >>
    /\ deck = << >>
    /\ encoded = NoEncoding
    /\ decoded = NoDecoding
    /\ self_hash = << >>
    /\ num = IntOfNat(0)
    /\ cards = << >>
    /\ ordering = Returned(<< >>)
    /\ rank = BigZero
    /\ payload = [num_cards_to_encode |-> 0, start_idx |-> 0,
                  message_cards |-> Returned(<< >>)]
    /\ classified = ""

\* agent.encode(m)
Encode(m, generated, hash_byte) ==
    /\ pc = "init"
    /\ pc' = "encoded"
    /\ message' = m
    /\ deck' = generated
    /\ encoded' = encode(m, generated, hash_byte)
    /\ self_hash' = IF encoded'.hash = << >> THEN self_hash ELSE encoded'.hash
    /\ UNCHANGED <<decoded, num, cards, ordering, rank, payload, classified>>

\* agent.decode(deck) of the deck encode returned
Decode ==
    /\ pc = "encoded"
    /\ encoded.raised = ""
    /\ pc' = "decoded"
    /\ decoded' = decode(encoded.deck)
    /\ UNCHANGED <<message, deck, encoded, self_hash, num, cards, ordering, rank,
                   payload, classified>>

\* a permutation of the 52 cards that reads back as the three fields, for
\* 9 <= start_idx <= 51, domain_int < 3! and integer_repr < (52 - start_idx)!
DeckCarrying(integer_repr, domain_int, start_idx) ==
    deck_encoded(
        Reverse(num_to_cards(IntOfBig(integer_repr), From(Identity, start_idx)).cards)
        \o Reverse(num_to_cards(IntOfNat(domain_int), <<6, 7, 8>>).cards)
        \o Reverse(num_to_cards(IntOfNat(start_idx), <<0, 1, 2, 3, 4, 5>>).cards))

\* the deck that carries integer_repr in as few cards as hold it
DeckOfInteger(integer_repr, domain_int) ==
    DeckCarrying(integer_repr, domain_int,
                 52 - SetMin({k \in 1..43 : BigLt(integer_repr, Factorial(k))}))

\* a permutation that carries the text under the tag domain_type
TextDeck(domain_type, text, hash_byte) ==
    DeckOfInteger(BigFromBits(string_to_binary(text, domain_type).bits
                              \o get_hash(hash_byte)),
                  Domain[domain_type])

\* below 6!, the integers that six cards carry
MaxInteger == 300
SmallIntegers == {0, 1, 255, 256, MaxInteger}
Texts == StringsUpTo({"a", " ", "1"}, MaxLen) \ {<< >>}

\* the decks given to decode: permutations of the 52 cards
Decks ==
    generate_deck
    \cup {DeckCarrying(BigOfNat(v), domain_int, start_idx) :
              v \in SmallIntegers, domain_int \in 0..MAX_DOMAIN_VALUE,
              start_idx \in {46}}
    \cup {DeckCarrying(BigOfNat(v), domain_int, 51) :
              v \in {0}, domain_int \in 0..MAX_DOMAIN_VALUE}
    \cup UNION {{TextDeck(d, text, hash_byte) :
                    hash_byte \in HashBytes,
                    text \in {t \in Texts : Range(t) \subseteq Symbols(CodeTable[d])}} :
                d \in Domains}

\* agent.decode(d) of a deck from elsewhere
DecodeDeck(d) ==
    /\ pc = "init"
    /\ pc' = "decoded_deck"
    /\ deck' = d
    /\ decoded' = decode(d)
    /\ UNCHANGED <<message, encoded, self_hash, num, cards, ordering, rank, payload,
                   classified>>

Next ==
    \/ \E m \in Messages, generated \in generate_deck, hash_byte \in HashBytes :
           Encode(m, generated, hash_byte)
    \/ Decode
    \/ \E d \in Decks : DecodeDeck(d)

Spec == Init /\ [][Next]_vars

(***************************************************************************)
(* The ranking functions on their own.                                     *)
(***************************************************************************)
MaxSmallCards == 4
MinLargeCards == 19
MaxLargeCards == 21
MaxSmallInteger == 30

\* the candidate lists given to num_to_cards: the first and the last n cards
\* of the ordered deck
CandidateLists ==
    {SubSeq(Identity, 1, n) : n \in 1..MaxSmallCards}
    \cup {From(Identity, 52 - n) : n \in (1..MaxSmallCards) \cup (MinLargeCards..MaxLargeCards)}

\* the integers given to num_to_cards with the candidates S: each of 0..n!
\* for a few cards, and for many cards the ends of [0, n!) and the last
\* rank under each of the first leading cards
NumsFor(S) ==
    LET n == Len(S)
    IN  IF n <= MaxSmallCards
        THEN {BigOfNat(v) : v \in 0..BigToNat(Factorial(n))}
        ELSE {BigZero, <<1>>, BigSub(Factorial(n), <<1>>)}
             \cup {BigSub(BigMulSmall(Factorial(n - 1), k), <<1>>) : k \in 1..3}

RECURSIVE Orderings(_)
\* every ordering of the cards of S
Orderings(S) ==
    IF Len(S) <= 1 THEN {S}
    ELSE UNION {{<<S[i]>> \o rest : rest \in Orderings(Remove(S, S[i]))} : i \in 1..Len(S)}

\* the orderings given to cards_to_num: every one of a few cards, and for
\* many cards those that start with one of the first cards and go on downward
OrderingsFor(S) ==
    IF Len(S) <= MaxSmallCards THEN Orderings(S)
    ELSE {<<S[k]>> \o Reverse(Remove(S, S[k])) : k \in 1..3}

\* the integers given to lines 151-157
Integers ==
    {BigOfNat(v) : v \in 0..MaxSmallInteger}
    \cup UNION {{BigSub(Factorial(n), <<1>>), Factorial(n), BigAdd(Factorial(n), <<1>>)} :
                   n \in {MinLargeCards, 51}}

\* self.num_to_cards(n, S)
Unrank(n, S) ==
    /\ pc = "init"
    /\ pc' = "unranked"
    /\ num' = IntOfBig(n)
    /\ cards' = S
    /\ ordering' = num_to_cards(IntOfBig(n), S)
    /\ UNCHANGED <<message, deck, encoded, decoded, self_hash, rank, payload, classified>>

\* self.cards_to_num(seq)
Rank(seq) ==
    /\ pc = "init"
    /\ pc' = "ranked"
    /\ cards' = seq
    /\ rank' = cards_to_num(seq)
    /\ UNCHANGED <<message, deck, encoded, decoded, self_hash, num, ordering, payload,
                   classified>>

\* self.cards_to_num of the ordering num_to_cards returned
RankOrdering ==
    /\ pc = "unranked"
    /\ ordering.raised = ""
    /\ pc' = "unranked_ranked"
    /\ rank' = cards_to_num(ordering.cards)
    /\ UNCHANGED <<message, deck, encoded, decoded, self_hash, num, cards, ordering,
                   payload, classified>>

\* self.num_to_cards of the integer cards_to_num returned, on the same cards
UnrankRank ==
    /\ pc = "ranked"
    /\ pc' = "ranked_unranked"
    /\ num' = IntOfBig(rank)
    /\ ordering' = num_to_cards(IntOfBig(rank), Sorted(cards))
    /\ UNCHANGED <<message, deck, encoded, decoded, self_hash, cards, rank, payload,
                   classified>>

\* lines 151-157 of encode for the integer V and the ordered deck
EncodeInteger(V) ==
    /\ pc = "init"
    /\ pc' = "payload"
    /\ num' = IntOfBig(V)
    /\ deck' = Identity
    /\ payload' = EncodePayload(V, Identity)
    /\ UNCHANGED <<message, encoded, decoded, self_hash, cards, ordering, rank,
                   classified>>

NextRank ==
    \/ \E S \in CandidateLists : \E n \in NumsFor(S) : Unrank(n, S)
    \/ \E S \in CandidateLists : \E seq \in OrderingsFor(S) : Rank(seq)
    \/ RankOrdering
    \/ UnrankRank
    \/ \E V \in Integers : EncodeInteger(V)

SpecRank == Init /\ [][NextRank]_vars

(***************************************************************************)
(* The classifier on its own.                                              *)
(***************************************************************************)
MaxClassifyLen == 3
ClassifyAlphabet == {"0", "a", "A", "N", ",", ".", "!", " ", "\t"}

\* self.get_domain_type(m)
Classify(m) ==
    /\ pc = "init"
    /\ pc' = "classified"
    /\ message' = m
    /\ classified' = get_domain_type(m)
    /\ UNCHANGED <<deck, encoded, decoded, self_hash, num, cards, ordering, rank,
                   payload>>

NextClassify == \E m \in StringsUpTo(ClassifyAlphabet, MaxClassifyLen) : Classify(m)

SpecClassify == Init /\ [][NextClassify]_vars

(***************************************************************************)
(* The claims.                                                             *)
(***************************************************************************)
IsPermutation(d) ==
    /\ Len(d) = 52
    /\ \A c \in 0..51 : Cardinality({i \in 1..Len(d) : d[i] = c}) = 1

\* C1: for every message that encode accepts and whose combined integer is
\* below 51!, whichever deck was generated, decode of the deck encode
\* returned is the message.
C1_RoundTrip ==
    pc = "decoded" /\ BigLt(encoded.integer_repr, Factorial(51))
        => decoded.raised = "" /\ decoded.value = message

\* C2: whenever encode returns, the list it returns has exactly 52 elements
\* and holds each of 0..51 exactly once, for every number of payload cards.
C2_DeckValid ==
    pc = "encoded" /\ encoded.raised = "" => IsPermutation(encoded.deck)

\* C3: for every permutation of 0..51 given as the deck, decode does not
\* raise; it returns a text or 'NULL'.
C3_DecodeNeverRaises ==
    pc = "decoded_deck" /\ IsPermutation(deck) => decoded.raised = ""

\* C4: when the combined integer exceeds 51!, encode raises and returns no
\* deck.
C4_OverflowRaises ==
    pc = "encoded" /\ encoded.hash # << >> /\ BigLt(Factorial(51), encoded.integer_repr)
        => encoded.raised # "" /\ encoded.deck = << >>

NumInRange == ~num.neg /\ BigLt(num.mag, Factorial(Len(cards)))

\* C5: for n >= 1 distinct cards S and num in [0, n!), num_to_cards returns an
\* ordering of exactly the cards of S whose cards_to_num is num; and for every
\* ordering seq of S, num_to_cards(cards_to_num(seq), S) is seq.
C5_RankingBijection ==
    /\ pc = "unranked" /\ NumInRange
           => /\ ordering.raised = ""
              /\ Len(ordering.cards) = Len(cards)
              /\ Range(ordering.cards) = Range(cards)
    /\ pc = "unranked_ranked" /\ NumInRange => rank = num.mag
    /\ pc = "ranked_unranked" => ordering.raised = "" /\ ordering.cards = cards

\* C6: every character of a message that get_domain_type classifies under a
\* domain other than ALL, whitespace included, is a key of that domain's
\* frequency table.
C6_TableCoverage ==
    pc = "classified" /\ classified # "ALL"
        => \A i \in 1..Len(message) :
               message[i] \in Keys(get_domain_frequencies(classified))

\* C7 as stated: a message that is empty once whitespace is stripped is
\* classified as NUM.
C7_EmptyIsNum ==
    pc = "classified" /\ Clean(message) = << >> => classified = "NUM"

\* C7 as amended: a message that is empty once whitespace is stripped is
\* classified as LAT_LONG.
C7_EmptyIsLatLong ==
    pc = "classified" /\ Clean(message) = << >> => classified = "LAT_LONG"

C7_Witness ==
    pc = "classified" /\ message = <<" ", "\t">> /\ classified = "LAT_LONG"

\* C8: for every integer V with 0 <= V <= 51!, lines 151-157 pick the smallest
\* n of 1..51 with n! >= V, num_to_cards(V, deck[52-n:]) does not raise, and
\* cards_to_num of the ordering it returns is V.
C8_CardCountSuffices ==
    pc = "payload" /\ BigLe(num.mag, Factorial(51))
        => /\ payload.num_cards_to_encode \in 1..51
           /\ BigLe(num.mag, Factorial(payload.num_cards_to_encode))
           /\ \A k \in 1..(payload.num_cards_to_encode - 1) : BigLt(Factorial(k), num.mag)
           /\ payload.message_cards.raised = ""
           /\ cards_to_num(payload.message_cards.cards) = num.mag

\* C9: for every message for which encode returns a deck, whichever deck was
\* generated, decode reads from the returned deck start_idx = 52 - n, the
\* value of the message's domain as domain_int, and encode's payload ordering
\* as the cards from start_idx upward.
C9_MetadataSurvives ==
    pc = "decoded"
        => /\ decoded.start_idx = BigOfNat(52 - encoded.num_cards_to_encode)
           /\ decoded.domain_int = BigOfNat(Domain[encoded.domain_type])
           /\ decoded.encoded_cards = encoded.message_cards

\* C10: where decode reaches the post-validation, it returns 'NULL' for an
\* empty decoded text, 'NULL' when the tag read from the deck is ALL and some
\* character of the text has a code outside (32, 128), and the text unchanged
\* otherwise.
C10_PostValidationByTag ==
    pc \in {"decoded", "decoded_deck"} /\ decoded.validated
        => decoded.value =
               IF decoded.message = << >> THEN NULL
               ELSE IF /\ DomainOf(BigToNat(decoded.domain_int)) = "ALL"
                       /\ \E i \in 1..Len(decoded.message) :
                              ~(Ord(decoded.message[i]) > 32 /\ Ord(decoded.message[i]) < 128)
               THEN NULL
               ELSE decoded.message

====
